---- MODULE Spec2Model ----
(***************************************************************************)
(* Model of src/main.cpp: the MinimalNLP problem definition                *)
(* (minimize (x-2)^2 subject to x >= 0) and the main() driver that hands   *)
(* it to the interior-point library.                                        *)
(*                                                                          *)
(* The library is an environment: it answers the option/Initialize/         *)
(* OptimizeTNLP calls of main() with any result, and while OptimizeTNLP    *)
(* runs it may invoke the callbacks of MinimalNLP in any order with any    *)
(* arguments, once it has learnt the dimensions from get_nlp_info (it      *)
(* allocates every buffer it passes from them).                             *)
(*                                                                          *)
(* Arrays are functions over 0..len-1 (C indexing).  A callback is an      *)
(* operator from its inputs to the record of its writes: for every output  *)
(* parameter the partial function index -> value of the elements it        *)
(* assigns, and its return value.  An element outside the domain of a      *)
(* write is left as the caller passed it.                                   *)
(***************************************************************************)
EXTENDS Integers, FiniteSets, TLC

VARIABLES pc, status, init_status, exitCode, msg, rejected,
          nInitialize, nOptimizeTNLP, info, last, memo, h_struct

vars == <<pc, status, init_status, exitCode, msg, rejected,
          nInitialize, nOptimizeTNLP, info, last, memo, h_struct>>

\* ---------------------------------------------------------------- bounds
\* largest iterate the library passes to a callback
MaxX == 4
\* largest obj_factor the library passes to eval_h
MaxObjFactor == 2

Iterates == -1..MaxX
ObjFactors == 0..MaxObjFactor

\* ------------------------------------------------------------ data types
\* the empty array (a NULL or zero-length buffer; nothing written)
NoElems == [i \in {} |-> 0]

\* the array of len elements all equal to v
Arr(len, v) == [i \in 0..(len - 1) |-> v]

\* a Number literal mant * 10^exp; 1e19 does not fit a machine integer
Sci(mant, exp) == [mant |-> mant, exp |-> exp]

\* values of ApplicationReturnStatus returned by Initialize / OptimizeTNLP
Solve_Succeeded == "Solve_Succeeded"
ApplicationReturnStatus ==
    {Solve_Succeeded, "Solved_To_Acceptable_Level", "Infeasible_Problem_Detected",
     "Invalid_Option"}

\* values of SolverReturn handed to finalize_solution
SolverReturn == {"SUCCESS", "LOCAL_INFEASIBILITY"}

\* objective values the library may hand to finalize_solution
FinalObjValues == {0, 1}

C_STYLE == "C_STYLE"

None == [name |-> "none"]

\* ------------------------------------------------- MinimalNLP callbacks
get_nlp_info ==
    [n |-> 1, m |-> 0, nnz_jac_g |-> 0, nnz_h_lag |-> 1,
     index_style |-> C_STYLE, ret |-> TRUE]

get_bounds_info(n, m) ==
    [x_l |-> (0 :> Sci(0, 0)), x_u |-> (0 :> Sci(1, 19)),
     g_l |-> NoElems, g_u |-> NoElems, ret |-> TRUE]

get_starting_point(n, init_x, init_z, m, init_lambda) ==
    [x |-> IF init_x THEN (0 :> 5) ELSE NoElems,
     z_L |-> NoElems, z_U |-> NoElems, lambda |-> NoElems, ret |-> TRUE]

\* eval_f with a sign slip in the shift: (x+2)^2
eval_f_sign(n, x, new_x) ==
    [obj_value |-> (x[0] + 2) * (x[0] + 2), ret |-> TRUE]

\* eval_f that takes new_x = false as leave to hand back the value it
\* computed on the previous call
eval_f_stale(n, x, new_x) ==
    IF ~new_x /\ last.name = "eval_f"
    THEN last.w
    ELSE [obj_value |-> (x[0] - 2) * (x[0] - 2), ret |-> TRUE]

eval_f(n, x, new_x) ==
    [obj_value |-> (x[0] - 2) * (x[0] - 2), ret |-> TRUE]

\* eval_grad_f without the factor 2
eval_grad_f_half(n, x, new_x) ==
    [grad_f |-> (0 :> (x[0] - 2)), ret |-> TRUE]

eval_grad_f(n, x, new_x) ==
    [grad_f |-> (0 :> 2 * (x[0] - 2)), ret |-> TRUE]

eval_g(n, x, new_x, m) ==
    [g |-> NoElems, ret |-> TRUE]

eval_jac_g(n, x, new_x, m, nele_jac, values_null) ==
    [iRow |-> NoElems, jCol |-> NoElems, values |-> NoElems, ret |-> TRUE]

\* eval_h that reports two index pairs where get_nlp_info announced one
eval_h_two_pairs(n, x, new_x, obj_factor, m, lambda, new_lambda, nele_hess, values_null) ==
    IF values_null
    THEN [iRow |-> (0 :> 0) @@ (1 :> 1), jCol |-> (0 :> 0) @@ (1 :> 1),
          values |-> NoElems, ret |-> TRUE]
    ELSE [iRow |-> NoElems, jCol |-> NoElems,
          values |-> (0 :> obj_factor * 2), ret |-> TRUE]

\* eval_h that writes the structure on every call (the else is lost)
eval_h_no_else(n, x, new_x, obj_factor, m, lambda, new_lambda, nele_hess, values_null) ==
    IF values_null
    THEN [iRow |-> (0 :> 0), jCol |-> (0 :> 0), values |-> NoElems, ret |-> TRUE]
    ELSE [iRow |-> (0 :> 0), jCol |-> (0 :> 0),
          values |-> (0 :> obj_factor * 2), ret |-> TRUE]

\* eval_h that returns the objective Hessian unscaled by obj_factor
eval_h_unscaled(n, x, new_x, obj_factor, m, lambda, new_lambda, nele_hess, values_null) ==
    IF values_null
    THEN [iRow |-> (0 :> 0), jCol |-> (0 :> 0), values |-> NoElems, ret |-> TRUE]
    ELSE [iRow |-> NoElems, jCol |-> NoElems, values |-> (0 :> 2), ret |-> TRUE]

eval_h(n, x, new_x, obj_factor, m, lambda, new_lambda, nele_hess, values_null) ==
    IF values_null
    THEN [iRow |-> (0 :> 0), jCol |-> (0 :> 0), values |-> NoElems, ret |-> TRUE]
    ELSE [iRow |-> NoElems, jCol |-> NoElems,
          values |-> (0 :> obj_factor * 2), ret |-> TRUE]

finalize_solution(sr, n, x, m, obj_value) ==
    [cout |-> <<"=== Solution ===", <<"x = ", x[0]>>, <<"f(x) = ", obj_value>>,
                "Expected: x = 2.0, f(x) = 0.0">>]

\* ------------------------------------------------------------- main()
\* line 118: the test on the status returned by Initialize
InitializeFailed(s) == s # Solve_Succeeded

\* exit code that also accepts Solved_To_Acceptable_Level as success
OptimizeExitCode_acceptable(s) ==
    IF s \in {Solve_Succeeded, "Solved_To_Acceptable_Level"} THEN 0 ELSE 1

\* lines 125-134: the exit code chosen from the status of OptimizeTNLP
OptimizeExitCode(s) == IF s = Solve_Succeeded THEN 0 ELSE 1

\* lines 125-134: the line printed for the status of OptimizeTNLP
OptimizeMessage(s) ==
    IF s = Solve_Succeeded THEN "Optimization succeeded!"
    ELSE "Optimization failed with status"

Init ==
    /\ pc = "L113"
    /\ status = "unset"
    /\ init_status = "unset"
    /\ exitCode = -1
    /\ msg = "Starting point: x = 5"
    /\ rejected = FALSE
    /\ nInitialize = 0
    /\ nOptimizeTNLP = 0
    /\ info = None
    /\ last = None
    /\ memo = None
    /\ h_struct = None

\* an option-setting call; main() discards the bool it returns
SetOption(name, from, to) ==
    /\ pc = from
    /\ \E accepted \in BOOLEAN : rejected' = (rejected \/ ~accepted)
    /\ pc' = to
    /\ UNCHANGED <<status, init_status, exitCode, msg, nInitialize,
                   nOptimizeTNLP, info, last, memo, h_struct>>

SetIntegerValue_print_level == SetOption("print_level", "L113", "L114")

SetStringValue_linear_solver == SetOption("linear_solver", "L114", "L115")

SetStringValue_mu_strategy == SetOption("mu_strategy", "L115", "L117")

Initialize ==
    /\ pc = "L117"
    /\ \E s \in ApplicationReturnStatus :
          /\ status' = s
          /\ init_status' = s
          /\ IF InitializeFailed(s)
             THEN /\ msg' = "IPOPT initialization failed!"
                  /\ exitCode' = 1
                  /\ pc' = "exit"
             ELSE /\ pc' = "L124"
                  /\ UNCHANGED <<msg, exitCode>>
    /\ nInitialize' = nInitialize + 1
    /\ UNCHANGED <<rejected, nOptimizeTNLP, info, last, memo, h_struct>>

\* line 124: control enters the library
OptimizeTNLP_call ==
    /\ pc = "L124"
    /\ pc' = "solving"
    /\ nOptimizeTNLP' = nOptimizeTNLP + 1
    /\ UNCHANGED <<status, init_status, exitCode, msg, rejected, nInitialize,
                   info, last, memo, h_struct>>

\* lines 124-134: the library returns a status and main() exits on it
OptimizeTNLP_return ==
    /\ pc = "solving"
    /\ \E s \in ApplicationReturnStatus :
          /\ status' = s
          /\ msg' = OptimizeMessage(s)
          /\ exitCode' = OptimizeExitCode(s)
    /\ pc' = "exit"
    /\ UNCHANGED <<init_status, rejected, nInitialize, nOptimizeTNLP,
                   info, last, memo, h_struct>>

\* ------------------------------------------- callbacks, as library steps
mainVars == <<pc, status, init_status, exitCode, msg, rejected,
              nInitialize, nOptimizeTNLP>>

\* the first evaluation of a solve is remembered (its inputs without the
\* new_x / new_lambda hints, and its outputs), to compare later ones with
Remember(call) ==
    IF memo = None
    THEN [name |-> call.name, x |-> call.x,
          obj_factor |-> IF call.name = "eval_h" THEN call.obj_factor ELSE 0,
          w |-> call.w]
    ELSE memo

Call_get_nlp_info ==
    /\ pc = "solving"
    /\ info' = [name |-> "info", n |-> get_nlp_info.n, m |-> get_nlp_info.m,
                nnz_jac_g |-> get_nlp_info.nnz_jac_g,
                nnz_h_lag |-> get_nlp_info.nnz_h_lag,
                index_style |-> get_nlp_info.index_style]
    /\ last' = [name |-> "get_nlp_info", ret |-> get_nlp_info.ret]
    /\ UNCHANGED <<mainVars, memo, h_struct>>

Call_get_bounds_info ==
    /\ pc = "solving" /\ info # None
    /\ last' = [name |-> "get_bounds_info",
                w |-> get_bounds_info(info.n, info.m)]
    /\ UNCHANGED <<mainVars, info, memo, h_struct>>

Call_get_starting_point ==
    /\ pc = "solving" /\ info # None
    /\ \E init_x \in BOOLEAN, init_z \in BOOLEAN, init_lambda \in BOOLEAN :
          last' = [name |-> "get_starting_point",
                   init_x |-> init_x, init_z |-> init_z,
                   init_lambda |-> init_lambda,
                   w |-> get_starting_point(info.n, init_x, init_z, info.m,
                                            init_lambda)]
    /\ UNCHANGED <<mainVars, info, memo, h_struct>>

Call_eval_f ==
    /\ pc = "solving" /\ info # None
    /\ \E x0 \in Iterates, new_x \in BOOLEAN :
          /\ last' = [name |-> "eval_f", x |-> Arr(info.n, x0), new_x |-> new_x,
                      w |-> eval_f(info.n, Arr(info.n, x0), new_x)]
          /\ memo' = Remember(last')
    /\ UNCHANGED <<mainVars, info, h_struct>>

Call_eval_grad_f ==
    /\ pc = "solving" /\ info # None
    /\ \E x0 \in Iterates, new_x \in BOOLEAN :
          /\ last' = [name |-> "eval_grad_f", x |-> Arr(info.n, x0),
                      new_x |-> new_x,
                      w |-> eval_grad_f(info.n, Arr(info.n, x0), new_x)]
          /\ memo' = Remember(last')
    /\ UNCHANGED <<mainVars, info, h_struct>>

Call_eval_g ==
    /\ pc = "solving" /\ info # None
    /\ \E x0 \in Iterates, new_x \in BOOLEAN :
          last' = [name |-> "eval_g", x |-> Arr(info.n, x0), new_x |-> new_x,
                   w |-> eval_g(info.n, Arr(info.n, x0), new_x, info.m)]
    /\ UNCHANGED <<mainVars, info, memo, h_struct>>

\* the library passes x = NULL together with values = NULL
Call_eval_jac_g ==
    /\ pc = "solving" /\ info # None
    /\ \E x0 \in Iterates, new_x \in BOOLEAN, values_null \in BOOLEAN :
          LET x == IF values_null THEN NoElems ELSE Arr(info.n, x0) IN
          /\ values_null => x0 = 0
          /\ last' = [name |-> "eval_jac_g", x |-> x, new_x |-> new_x,
                      values_null |-> values_null,
                      w |-> eval_jac_g(info.n, x, new_x, info.m,
                                       info.nnz_jac_g, values_null)]
    /\ UNCHANGED <<mainVars, info, memo, h_struct>>

Call_eval_h ==
    /\ pc = "solving" /\ info # None
    /\ \E x0 \in Iterates, new_x \in BOOLEAN, obj_factor \in ObjFactors,
          new_lambda \in BOOLEAN, values_null \in BOOLEAN :
          LET x == IF values_null THEN NoElems ELSE Arr(info.n, x0)
              lambda == IF values_null THEN NoElems ELSE Arr(info.m, 0)
              w == eval_h(info.n, x, new_x, obj_factor, info.m, lambda,
                          new_lambda, info.nnz_h_lag, values_null)
          IN
          /\ values_null => x0 = 0
          /\ last' = [name |-> "eval_h", x |-> x, new_x |-> new_x,
                      obj_factor |-> obj_factor, lambda |-> lambda,
                      new_lambda |-> new_lambda, values_null |-> values_null,
                      w |-> w]
          /\ memo' = IF values_null THEN memo ELSE Remember(last')
          /\ h_struct' = IF values_null /\ h_struct = None
                         THEN [name |-> "structure",
                               iRow |-> w.iRow, jCol |-> w.jCol]
                         ELSE h_struct
    /\ UNCHANGED <<mainVars, info>>

Call_finalize_solution ==
    /\ pc = "solving" /\ info # None
    /\ \E sr \in SolverReturn, x0 \in Iterates, obj_value \in FinalObjValues :
          last' = [name |-> "finalize_solution", status |-> sr,
                   x |-> Arr(info.n, x0), obj_value |-> obj_value,
                   w |-> finalize_solution(sr, info.n, Arr(info.n, x0),
                                           info.m, obj_value)]
    /\ UNCHANGED <<mainVars, info, memo, h_struct>>

Next ==
    \/ SetIntegerValue_print_level
    \/ SetStringValue_linear_solver
    \/ SetStringValue_mu_strategy
    \/ Initialize
    \/ OptimizeTNLP_call
    \/ OptimizeTNLP_return
    \/ Call_get_nlp_info
    \/ Call_get_bounds_info
    \/ Call_get_starting_point
    \/ Call_eval_f
    \/ Call_eval_grad_f
    \/ Call_eval_g
    \/ Call_eval_jac_g
    \/ Call_eval_h
    \/ Call_finalize_solution

Spec == Init /\ [][Next]_vars

\* ================================================================ claims

\* ---- comparison of Number literals (mantissa, decimal exponent)
RECURSIVE Pow10(_)
Pow10(k) == IF k = 0 THEN 1 ELSE 10 * Pow10(k - 1)

\* more decimal places than any mantissa of the model has
MaxDigits == 8

\* p <= q for p, q > 0
PosLeq(p, q) ==
    LET d == q.exp - p.exp IN
    IF d >= 0
    THEN (IF d > MaxDigits THEN TRUE ELSE p.mant <= q.mant * Pow10(d))
    ELSE (IF 0 - d > MaxDigits THEN FALSE ELSE p.mant * Pow10(0 - d) <= q.mant)

NumLeq(a, b) ==
    IF a.mant <= 0 /\ b.mant >= 0 THEN TRUE
    ELSE IF a.mant > 0 /\ b.mant > 0 THEN PosLeq(a, b)
    ELSE IF a.mant < 0 /\ b.mant < 0
         THEN PosLeq(Sci(0 - b.mant, b.exp), Sci(0 - a.mant, a.exp))
    ELSE FALSE

\* the bounds MinimalNLP reports for its variable
VarBounds == get_bounds_info(get_nlp_info.n, get_nlp_info.m)

InBounds(v) ==
    /\ NumLeq(VarBounds.x_l[0], Sci(v, 0))
    /\ NumLeq(Sci(v, 0), VarBounds.x_u[0])

\* the objective at the point v, as eval_f computes it under the hint b
F(v, b) == eval_f(get_nlp_info.n, Arr(get_nlp_info.n, v), b).obj_value

Exited == pc = "exit"

ConfigFailure == rejected \/ init_status \notin {"unset", Solve_Succeeded}

\* C1: the process exits with code 0 exactly when Initialize returned
\* Solve_Succeeded and OptimizeTNLP was then called and returned
\* Solve_Succeeded; every other exit is with code 1, and no exit code is
\* set before the process exits.
C1_ExitContract ==
    /\ Exited => exitCode \in {0, 1}
    /\ Exited => (exitCode = 0 <=> /\ init_status = Solve_Succeeded
                                   /\ nOptimizeTNLP = 1
                                   /\ status = Solve_Succeeded)
    /\ ~Exited => exitCode = -1

C1_Witness ==
    /\ Exited /\ exitCode = 0
    /\ init_status = Solve_Succeeded /\ nOptimizeTNLP = 1

\* C2: once an option-setting call has rejected its option or Initialize has
\* reported a failure, OptimizeTNLP is never called, no callback of
\* MinimalNLP is invoked, Initialize and OptimizeTNLP are called at most
\* once, and the process exits with a nonzero code.
C2_ConfigFailureIsFatal ==
    /\ nInitialize <= 1 /\ nOptimizeTNLP <= 1
    /\ ConfigFailure => /\ nOptimizeTNLP = 0
                        /\ last = None
                        /\ Exited => exitCode # 0

\* C3: the problem data of the end-to-end scenario: n = 1, m = 0, bounds
\* [0, 1e19], start 5 inside the bounds, and 2 is inside the bounds and is
\* the only point inside them where the gradient is zero and where the
\* objective takes its minimum 0; the Hessian entry is 2 * obj_factor; a
\* solve that ends with Solve_Succeeded exits 0.
C3_EndToEndProblem ==
    /\ info # None => info.n = 1 /\ info.m = 0
    /\ last.name = "get_bounds_info"
          => /\ last.w.x_l = (0 :> Sci(0, 0))
             /\ last.w.x_u = (0 :> Sci(1, 19))
             /\ NumLeq(last.w.x_l[0], last.w.x_u[0])
    /\ (last.name = "get_starting_point" /\ last.init_x)
          => last.w.x = (0 :> 5) /\ InBounds(last.w.x[0])
    /\ InBounds(2)
    /\ (last.name = "eval_f" /\ InBounds(last.x[0]))
          => /\ last.w.obj_value >= 0
             /\ last.w.obj_value = 0 <=> last.x[0] = 2
             /\ last.w.ret
    /\ (last.name = "eval_grad_f" /\ InBounds(last.x[0]))
          => /\ last.w.grad_f[0] = 0 <=> last.x[0] = 2
             /\ last.w.grad_f[0] = 2 * (last.x[0] - 2)
    /\ (last.name = "eval_h" /\ ~last.values_null)
          => last.w.values[0] = 2 * last.obj_factor
    /\ (Exited /\ nOptimizeTNLP = 1 /\ status = Solve_Succeeded) => exitCode = 0

C3_Witness ==
    /\ last.name = "eval_f" /\ last.x[0] = 2 /\ last.w.obj_value = 0
    /\ InBounds(5) /\ ~InBounds(-1)

\* C4: every callback writes exactly as many elements as get_nlp_info
\* announced: n variable bounds on each side and m constraint bounds, m
\* constraint values, nnz_jac_g Jacobian entries in both modes, nnz_h_lag
\* index pairs in structure mode and nnz_h_lag values in values mode of
\* eval_h, with every index in [0, n) (C-style); the announced numbers are
\* n = 1, m = 0, nnz_jac_g = 0, nnz_h_lag = 1.
C4_DimensionContract ==
    /\ info # None => /\ info.n = 1 /\ info.m = 0
                      /\ info.nnz_jac_g = 0 /\ info.nnz_h_lag = 1
                      /\ info.index_style = C_STYLE
    /\ last.name = "get_bounds_info"
          => /\ DOMAIN last.w.x_l = 0..(info.n - 1)
             /\ DOMAIN last.w.x_u = 0..(info.n - 1)
             /\ DOMAIN last.w.g_l = 0..(info.m - 1)
             /\ DOMAIN last.w.g_u = 0..(info.m - 1)
    /\ last.name = "eval_g" => DOMAIN last.w.g = 0..(info.m - 1)
    /\ last.name = "eval_jac_g"
          => /\ DOMAIN last.w.iRow =
                  (IF last.values_null THEN 0..(info.nnz_jac_g - 1) ELSE {})
             /\ DOMAIN last.w.jCol = DOMAIN last.w.iRow
             /\ DOMAIN last.w.values =
                  (IF last.values_null THEN {} ELSE 0..(info.nnz_jac_g - 1))
    /\ last.name = "eval_h"
          => /\ DOMAIN last.w.iRow =
                  (IF last.values_null THEN 0..(info.nnz_h_lag - 1) ELSE {})
             /\ DOMAIN last.w.jCol = DOMAIN last.w.iRow
             /\ DOMAIN last.w.values =
                  (IF last.values_null THEN {} ELSE 0..(info.nnz_h_lag - 1))
             /\ \A k \in DOMAIN last.w.iRow :
                   /\ last.w.iRow[k] \in 0..(info.n - 1)
                   /\ last.w.jCol[k] \in 0..(info.n - 1)

C4_Witness ==
    /\ last.name = "eval_h" /\ last.values_null
    /\ Cardinality(DOMAIN last.w.iRow) = info.nnz_h_lag
    /\ info.nnz_h_lag = 1

\* C5: eval_h chooses its mode by values_null alone: in structure mode it
\* writes the pair (0,0) and no value, in values mode it writes values[0]
\* and no index; every structure call of a solve returns the structure the
\* first one returned, and every values call fills exactly its positions.
C5_HessianTwoMode ==
    /\ last.name = "eval_h"
          => IF last.values_null
             THEN /\ last.w.iRow = (0 :> 0) /\ last.w.jCol = (0 :> 0)
                  /\ last.w.values = NoElems
             ELSE /\ DOMAIN last.w.values = {0}
                  /\ last.w.iRow = NoElems /\ last.w.jCol = NoElems
    /\ (last.name = "eval_h" /\ h_struct # None)
          => IF last.values_null
             THEN last.w.iRow = h_struct.iRow /\ last.w.jCol = h_struct.jCol
             ELSE DOMAIN last.w.values = DOMAIN h_struct.iRow
    /\ h_struct # None => h_struct.iRow = (0 :> 0) /\ h_struct.jCol = (0 :> 0)

C5_Witness ==
    /\ h_struct # None
    /\ last.name = "eval_h" /\ ~last.values_null
    /\ last.obj_factor = 2 /\ last.x[0] = 3

\* C6: the gradient returned by eval_grad_f at x is 2(x-2), and twice it is
\* f(x+1) - f(x-1) for the f of eval_f, whatever the new_x hints.
C6_GradientConsistent ==
    last.name = "eval_grad_f"
       => /\ DOMAIN last.w.grad_f = {0}
          /\ last.w.grad_f[0] = 2 * (last.x[0] - 2)
          /\ \A b1 \in BOOLEAN, b2 \in BOOLEAN :
                2 * last.w.grad_f[0] = F(last.x[0] + 1, b1) - F(last.x[0] - 1, b2)
          /\ last.w.ret

C6_Witness ==
    /\ last.name = "eval_grad_f" /\ last.x[0] = 3 /\ ~last.new_x
    /\ last.w.grad_f[0] = 2

\* C7: in values mode eval_h returns obj_factor * 2 whatever x, lambda and
\* the hints are, and for obj_factor = 1 this is the second difference
\* f(x+1) - 2 f(x) + f(x-1) of eval_f.
C7_HessianValue ==
    (last.name = "eval_h" /\ ~last.values_null)
       => /\ last.w.values[0] = last.obj_factor * 2
          /\ last.obj_factor = 1
                => \A b \in BOOLEAN :
                      last.w.values[0] = F(last.x[0] + 1, b)
                                         - 2 * F(last.x[0], b)
                                         + F(last.x[0] - 1, b)
          /\ last.w.ret

C7_Witness ==
    /\ last.name = "eval_h" /\ ~last.values_null
    /\ last.obj_factor = 1 /\ last.w.values[0] = 2 /\ last.x[0] = 0

\* C8: an evaluation (eval_f, eval_grad_f, eval_h in values mode) returns
\* what the first evaluation of the solve returned for the same iterate and
\* obj_factor, whatever was called in between and whatever the hints say.
C8_Purity ==
    (/\ memo # None
     /\ last.name = memo.name
     /\ last.x = memo.x
     /\ last.name = "eval_h" => last.obj_factor = memo.obj_factor)
       => last.w = memo.w

C8_Witness ==
    /\ memo # None /\ memo.name = "eval_f" /\ memo.x[0] = 1
    /\ last.name = "eval_f" /\ last.x = memo.x /\ ~last.new_x
    /\ h_struct # None

\* C10: get_starting_point writes exactly what is requested: x[0] = 5 iff
\* init_x, the n bound multipliers z_L and z_U iff init_z, the m constraint
\* multipliers iff init_lambda, and it returns true only when everything
\* requested was written.
C10_StartingPointAsRequested ==
    last.name = "get_starting_point"
       => LET supplied ==
                 /\ last.w.x = (IF last.init_x THEN Arr(info.n, 5) ELSE NoElems)
                 /\ DOMAIN last.w.z_L = (IF last.init_z THEN 0..(info.n - 1) ELSE {})
                 /\ DOMAIN last.w.z_U = (IF last.init_z THEN 0..(info.n - 1) ELSE {})
                 /\ DOMAIN last.w.lambda =
                       (IF last.init_lambda THEN 0..(info.m - 1) ELSE {})
          IN supplied /\ (last.w.ret => supplied)

====
